---- MODULE Spec2Model ----
(***************************************************************************)
(* sudo-GUI: the sudoers parser, the two editable tables with their        *)
(* validation, the merge/serializer and the visudo commit pipeline of      *)
(* SudoGUI (src/sudo_gui).                                                 *)
(*                                                                         *)
(* Strings are sequences of tokens.  A token is an indivisible run of      *)
(* characters: a keyword ("Defaults", "User_Alias"), a word, one digit,    *)
(* one punctuation character, one blank or the line feed.  The Python      *)
(* string functions of the source (splitlines, strip, startswith, split,   *)
(* join, re.match, int) are computed on these sequences, so a text is      *)
(* never compared with anything but what the code builds from it.          *)
(***************************************************************************)
EXTENDS Integers, Sequences, FiniteSets, TLC

(***************************************************************************)
(* Token vocabulary                                                        *)
(***************************************************************************)
NL == "\n"
SP == " "

\* The alternatives of ALIAS_RE's first group followed by "_Alias", and the
\* items of AliasTypeDelegate.kinds.
AliasKw == {"User_Alias", "Runas_Alias", "Host_Alias", "Cmnd_Alias"}

KindOf(tok) ==
    CASE tok = "User_Alias"  -> "User"
      [] tok = "Runas_Alias" -> "Runas"
      [] tok = "Host_Alias"  -> "Host"
      [] tok = "Cmnd_Alias"  -> "Cmnd"

\* f"{t}_Alias" for a captured kind t.
KindToken(kind) == CHOOSE tok \in AliasKw : KindOf(tok) = kind

Digits == {"0", "1", "5", "9"}

DigitVal(tok) ==
    CASE tok = "0" -> 0
      [] tok = "1" -> 1
      [] tok = "5" -> 5
      [] tok = "9" -> 9

\* Tokens made of \w characters only (letters, digits, underscore).
WordTokens ==
    {"Defaults", "N", "M", "ADMINS", "alice", "bob", "a", "comment", "ALL",
     "env_reset", "mail_badpass", "secure_path", "use_pty", "lecture",
     "timestamp_timeout", "always", "once", "never", "sometimes", "true",
     "false", "abc", "_"}
        \cup AliasKw \cup Digits

\* Tokens holding an underscore character.
UnderscoreTokens ==
    AliasKw \cup {"env_reset", "mail_badpass", "secure_path", "use_pty",
                  "timestamp_timeout", "_"}

IsSpace(tok) == tok = SP
IsWord(tok) == tok \in WordTokens

(***************************************************************************)
(* Python string functions on token sequences                              *)
(***************************************************************************)
Drop(s, n) == SubSeq(s, n + 1, Len(s))
Take(s, n) == SubSeq(s, 1, n)

\* Index of the first occurrence of tok in s at or after i, or Len(s)+1.
RECURSIVE FirstIdx(_, _, _)
FirstIdx(s, i, tok) ==
    IF i > Len(s) THEN i
    ELSE IF s[i] = tok THEN i ELSE FirstIdx(s, i + 1, tok)

Contains(s, tok) == \E i \in 1..Len(s) : s[i] = tok

\* Number of leading blanks of s.
RECURSIVE LeadingSpaces(_)
LeadingSpaces(s) ==
    IF s = <<>> \/ ~IsSpace(Head(s)) THEN 0 ELSE 1 + LeadingSpaces(Tail(s))

RECURSIVE TrailingSpaces(_)
TrailingSpaces(s) ==
    IF s = <<>> \/ ~IsSpace(s[Len(s)]) THEN 0
    ELSE 1 + TrailingSpaces(Take(s, Len(s) - 1))

lstrip(s) == Drop(s, LeadingSpaces(s))
rstrip(s) == Take(s, Len(s) - TrailingSpaces(s))
strip(s) == rstrip(lstrip(s))

startswith(s, tok) == s # <<>> /\ Head(s) = tok

\* str.splitlines(): the pieces between line feeds; a final line feed opens
\* no further (empty) line.
RECURSIVE splitlines(_)
splitlines(text) ==
    IF text = <<>> THEN <<>>
    ELSE LET i == FirstIdx(text, 1, NL)
         IN  <<Take(text, i - 1)>> \o splitlines(Drop(text, i))

\* "\n".join(lines)
RECURSIVE join(_)
join(lines) ==
    IF lines = <<>> THEN <<>>
    ELSE IF Len(lines) = 1 THEN lines[1]
    ELSE lines[1] \o <<NL>> \o join(Tail(lines))

\* Number of leading \w tokens of s.
RECURSIVE LeadingWords(_)
LeadingWords(s) ==
    IF s = <<>> \/ ~IsWord(Head(s)) THEN 0 ELSE 1 + LeadingWords(Tail(s))

\* str.split()[-1]: the last blank-separated piece of a string that has one.
RECURSIVE LastPiece(_)
LastPiece(s) ==
    LET r == rstrip(s)
    IN  IF r = <<>> \/ ~Contains(r, SP) THEN r
        ELSE LastPiece(Tail(r))

\* str.split()[0]
FirstPiece(s) ==
    LET l == lstrip(s) IN Take(l, FirstIdx(l, 1, SP) - 1)

HasPiece(s) == strip(s) # <<>>

(***************************************************************************)
(* constants.py: the two line patterns                                     *)
(***************************************************************************)
\* DEFAULT_RE = ^Defaults\s+(.*) applied with match(): the keyword, at least
\* one blank, and the rest of the line as group 1.
DEFAULT_RE_matches(s) ==
    /\ startswith(s, "Defaults")
    /\ LeadingSpaces(Tail(s)) >= 1

DEFAULT_RE_group1(s) == lstrip(Tail(s))

\* ALIAS_RE = ^(User|Runas|Host|Cmnd)_Alias\s+(\w+)\s*=\s*(.*)
\* \w+ is greedy and must be followed by blanks or "=", so it takes the
\* whole run of word tokens.
AliasAfterKw(s) == lstrip(Tail(s))
AliasAfterName(s) ==
    LET a == AliasAfterKw(s) IN lstrip(Drop(a, LeadingWords(a)))

ALIAS_RE_matches(s) ==
    /\ s # <<>>
    /\ Head(s) \in AliasKw
    /\ LeadingSpaces(Tail(s)) >= 1
    /\ LeadingWords(AliasAfterKw(s)) >= 1
    /\ startswith(AliasAfterName(s), "=")

ALIAS_RE_groups(s) ==
    LET a == AliasAfterKw(s)
    IN  [kind |-> KindOf(Head(s)),
         name |-> Take(a, LeadingWords(a)),
         defn |-> lstrip(Tail(AliasAfterName(s)))]

(***************************************************************************)
(* parser.py: parse_sudoers                                                *)
(***************************************************************************)
NoParse == [defaults |-> <<>>, aliases |-> <<>>, rules |-> <<>>]

\* parse_sudoers without the `continue` of the comment branch: a comment or
\* blank line falls through to the final else as well.
ParseLine_NoContinue(acc, line) ==
    LET stripped == strip(line)
    IN  IF startswith(stripped, "#") \/ stripped = <<>>
        THEN [acc EXCEPT !.rules = Append(Append(@, line), line)]
        ELSE IF DEFAULT_RE_matches(stripped)
        THEN [acc EXCEPT !.defaults = Append(@, DEFAULT_RE_group1(stripped))]
        ELSE IF ALIAS_RE_matches(stripped)
        THEN [acc EXCEPT !.aliases = Append(@, ALIAS_RE_groups(stripped))]
        ELSE [acc EXCEPT !.rules = Append(@, line)]

\* One iteration of the loop of parse_sudoers on `line`.
ParseLine(acc, line) ==
    LET stripped == strip(line)
    IN  IF startswith(stripped, "#") \/ stripped = <<>>
        THEN [acc EXCEPT !.rules = Append(@, line)]
        ELSE IF DEFAULT_RE_matches(stripped)
        THEN [acc EXCEPT !.defaults = Append(@, DEFAULT_RE_group1(stripped))]
        ELSE IF ALIAS_RE_matches(stripped)
        THEN [acc EXCEPT !.aliases = Append(@, ALIAS_RE_groups(stripped))]
        ELSE [acc EXCEPT !.rules = Append(@, line)]

RECURSIVE ParseLoop(_, _)
ParseLoop(acc, lines) ==
    IF lines = <<>> THEN acc
    ELSE ParseLoop(ParseLine(acc, Head(lines)), Tail(lines))

parse_sudoers(text) == ParseLoop(NoParse, splitlines(text))

(***************************************************************************)
(* constants.py: DEFAULTS_META                                             *)
(***************************************************************************)
MetaKeys ==
    {<<"env_reset">>, <<"mail_badpass">>, <<"secure_path">>, <<"use_pty">>,
     <<"lecture">>, <<"timestamp_timeout">>}

\* meta.get("type", "text") for meta = DEFAULTS_META.get(key, {})
MetaType(key) ==
    CASE key \in {<<"env_reset">>, <<"mail_badpass">>, <<"use_pty">>} -> "bool"
      [] key = <<"secure_path">> -> "path"
      [] key = <<"lecture">> -> "enum"
      [] key = <<"timestamp_timeout">> -> "int"
      [] OTHER -> "text"

\* meta["choices"] of the one enum key
MetaChoices(key) == {<<"always">>, <<"once">>, <<"never">>}

TimestampTimeoutMin == -1
TimestampTimeoutMax == 999
DefaultIntMin == -99999
DefaultIntMax == 99999

MetaMin(key) ==
    IF key = <<"timestamp_timeout">> THEN TimestampTimeoutMin ELSE DefaultIntMin
MetaMax(key) ==
    IF key = <<"timestamp_timeout">> THEN TimestampTimeoutMax ELSE DefaultIntMax

\* meta.get("desc", "Custom / undocumented key.")
MetaDesc(key) ==
    IF key \in MetaKeys THEN <<"desc">> \o key
    ELSE <<"Custom / undocumented key.">>

(***************************************************************************)
(* int(val): an optional sign, then digits, single underscores allowed     *)
(* between digits; anything else is a ValueError.                          *)
(***************************************************************************)
RECURSIVE IsDigitRun(_)
IsDigitRun(s) ==
    /\ s # <<>>
    /\ Head(s) \in Digits
    /\ \/ Len(s) = 1
       \/ IsDigitRun(Tail(s))
       \/ (Len(s) >= 3 /\ s[2] = "_" /\ IsDigitRun(Drop(s, 2)))

Unsigned(s) == IF s # <<>> /\ Head(s) \in {"-", "+"} THEN Tail(s) ELSE s

int_ok(s) == IsDigitRun(Unsigned(s))

RECURSIVE DigitsValue(_, _)
DigitsValue(s, acc) ==
    IF s = <<>> THEN acc
    ELSE IF Head(s) = "_" THEN DigitsValue(Tail(s), acc)
    ELSE DigitsValue(Tail(s), 10 * acc + DigitVal(Head(s)))

int(s) ==
    IF s # <<>> /\ Head(s) = "-" THEN 0 - DigitsValue(Tail(s), 0)
    ELSE DigitsValue(Unsigned(s), 0)

(***************************************************************************)
(* The two tables.  A table is a sequence of rows, a row a sequence of     *)
(* cells (cell c of the model is column c-1 of the QTableWidget), a cell   *)
(* its text, the UserRole data stored by populate, and its background.     *)
(***************************************************************************)
Unset == "unset"        \* no BackgroundRole data yet
Base == "base"          \* palette Base
ChangedBg == "changed"  \* changed_bg(palette)
ErrorBg == "error"      \* error_bg(palette)

NewCell(text) == [text |-> text, orig |-> text, bg |-> Unset]

\* DefaultsTab.populate: one row per (key, val), with the Meaning column.
DefaultsRow(key, val) == <<NewCell(key), NewCell(val), NewCell(MetaDesc(key))>>

\* ListTab.populate (AliasTab): one row per (identity, definition).
AliasRow(ident, defn) == <<NewCell(ident), NewCell(defn)>>

\* populate_tabs: d.split("=", 1) if "=" in d else (d, "")
SplitDefault(d) ==
    IF Contains(d, "=")
    THEN LET i == FirstIdx(d, 1, "=") IN <<Take(d, i - 1), Drop(d, i)>>
    ELSE <<d, <<>>>>

\* populate_tabs: f"{t}_Alias {n}"
AliasIdentity(kind, name) == <<KindToken(kind), SP>> \o name

PopulateDefaults(defaults) ==
    [i \in 1..Len(defaults) |->
        DefaultsRow(SplitDefault(defaults[i])[1], SplitDefault(defaults[i])[2])]

PopulateAliases(aliases) ==
    [i \in 1..Len(aliases) |->
        AliasRow(AliasIdentity(aliases[i].kind, aliases[i].name), aliases[i].defn)]

(***************************************************************************)
(* Row validation                                                          *)
(***************************************************************************)
\* DefaultsTab.validate_row without the range test on an int value.
DefaultsRowOk_NoRange(row) ==
    LET key == strip(row[1].text)
        val == strip(row[2].text)
        kind == MetaType(key)
    IN  CASE kind = "bool" -> key # <<>> /\ val \in {<<>>, <<"true">>, <<"false">>}
          [] kind = "enum" -> key # <<>> /\ val \in MetaChoices(key)
          [] kind = "int" -> int_ok(val) /\ key # <<>>
          [] OTHER -> key # <<>>

\* DefaultsTab.validate_row, the value it returns.
DefaultsRowOk(row) ==
    LET key == strip(row[1].text)
        val == strip(row[2].text)
        kind == MetaType(key)
    IN  CASE kind = "bool" -> key # <<>> /\ val \in {<<>>, <<"true">>, <<"false">>}
          [] kind = "enum" -> key # <<>> /\ val \in MetaChoices(key)
          [] kind = "int" ->
                /\ int_ok(val)
                /\ key # <<>>
                /\ MetaMin(key) <= int(val)
                /\ int(val) <= MetaMax(key)
          [] OTHER -> key # <<>>

\* AliasTab.validate_row, the value it returns.
AliasRowOk(row) ==
    LET first == strip(row[1].text)
        second == strip(row[2].text)
    IN  /\ first # <<>>
        /\ second # <<>>
        /\ \E i \in 1..Len(first) : first[i] \in UnderscoreTokens
        /\ ~Contains(first, "=")

(***************************************************************************)
(* The widgets' signal chain.  A window state w holds the two tables, the  *)
(* edit toggle, the Save button and whether a slot has raised.  Slots run  *)
(* synchronously and nested, as Qt's direct connections do; `depth` is the *)
(* number of slots on the stack.                                           *)
(***************************************************************************)
\* Nested slot calls after which the interpreter raises RecursionError.
RecursionLimit == 24

Raise(w) == [w EXCEPT !.crashed = TRUE]

\* DefaultsTab._paint_row under blockSignals(True): an invalid row gets the
\* error background on every column, a valid row is left as it is.
PaintDefaultsRow(row, good) ==
    IF good THEN row
    ELSE [c \in 1..Len(row) |-> [row[c] EXCEPT !.bg = ErrorBg]]

\* DefaultsTab.validate: validate_row on every row.
ValidateDefaults(d) ==
    [r \in 1..Len(d) |-> PaintDefaultsRow(d[r], DefaultsRowOk(d[r]))]

AllDefaultsOk(d) == \A r \in 1..Len(d) : DefaultsRowOk(d[r])
AllAliasesOk(a) == \A r \in 1..Len(a) : AliasRowOk(a[r])

CellOf(w, tab, r, c) == IF tab = "defaults" THEN w.d[r][c] ELSE w.a[r][c]

WithBg(w, tab, r, c, color) ==
    IF tab = "defaults" THEN [w EXCEPT !.d[r][c].bg = color]
    ELSE [w EXCEPT !.a[r][c].bg = color]

RECURSIVE SetBackground(_, _, _, _, _, _)
RECURSIVE MarkChanged(_, _, _, _, _)
RECURSIVE UpdateValidation(_, _)
RECURSIVE ValidateAliasRows(_, _, _)

\* QTableWidgetItem.setBackground with the table's signals unblocked: a
\* value equal to the stored one changes nothing; any other is stored and
\* itemChanged runs ListTab._mark_changed.
SetBackground(w, tab, r, c, color, depth) ==
    IF w.crashed \/ CellOf(w, tab, r, c).bg = color THEN w
    ELSE MarkChanged(WithBg(w, tab, r, c, color), tab, r, c, depth + 1)

\* ListTab._mark_changed(item), then changed.emit() -> _update_validation.
MarkChanged(w, tab, r, c, depth) ==
    IF w.crashed THEN w
    ELSE IF depth > RecursionLimit THEN Raise(w)
    ELSE LET cell == CellOf(w, tab, r, c)
             color == IF cell.text # cell.orig THEN ChangedBg ELSE Base
         IN  UpdateValidation(SetBackground(w, tab, r, c, color, depth),
                              depth + 1)

\* AliasTab.validate: validate_row and _paint_row on rows r.., the two
\* setBackground calls of a row with signals unblocked.
ValidateAliasRows(w, r, depth) ==
    IF w.crashed \/ r > Len(w.a) THEN w
    ELSE LET bg == IF AliasRowOk(w.a[r]) THEN Base ELSE ErrorBg
             w1 == SetBackground(w, "alias", r, 1, bg, depth)
             w2 == SetBackground(w1, "alias", r, 2, bg, depth)
         IN  ValidateAliasRows(w2, r + 1, depth)

\* SudoGUI._update_validation: `and` evaluates the alias table only when the
\* toggle is checked and the Defaults table validated.
UpdateValidation(w, depth) ==
    IF w.crashed THEN w
    ELSE IF depth > RecursionLimit THEN Raise(w)
    ELSE IF ~w.edit THEN [w EXCEPT !.save = FALSE]
    ELSE LET w1 == [w EXCEPT !.d = ValidateDefaults(w.d)]
         IN  IF ~AllDefaultsOk(w.d) THEN [w1 EXCEPT !.save = FALSE]
             ELSE LET w2 == ValidateAliasRows(w1, 1, depth)
                  IN  IF w2.crashed THEN w2
                      ELSE [w2 EXCEPT !.save = AllAliasesOk(w2.a)]

\* QPushButton.setChecked(checked) on edit_toggle: toggled is emitted only
\* when the state changes, and runs set_editable -> _update_validation.
SetChecked(w, checked) ==
    IF w.edit = checked THEN w
    ELSE UpdateValidation([w EXCEPT !.edit = checked], 1)

\* The model's setData(index, text) from a delegate: the same text changes
\* nothing; another is stored and itemChanged runs _mark_changed.
SetText(w, tab, r, c, text) ==
    IF CellOf(w, tab, r, c).text = text THEN w
    ELSE MarkChanged(IF tab = "defaults" THEN [w EXCEPT !.d[r][c].text = text]
                     ELSE [w EXCEPT !.a[r][c].text = text],
                     tab, r, c, 1)

\* populate_tabs(text): both populate calls run with signals blocked.
\* w.parsed keeps the three lists parse_sudoers returned, w.raw the text
\* given to raw_label.
populate_tabs(w, text) ==
    LET p == parse_sudoers(text)
    IN  [w EXCEPT !.d = PopulateDefaults(p.defaults),
                  !.a = PopulateAliases(p.aliases),
                  !.parsed = p,
                  !.raw = text]

(***************************************************************************)
(* save_sudoers: the merged text                                           *)
(***************************************************************************)
\* save_sudoers emitting the key=value form whatever the value.
DefaultsLine_AlwaysEquals(row) ==
    <<"Defaults", SP>> \o strip(row[1].text) \o <<"=">> \o strip(row[2].text)

\* f"Defaults {key}={val}" if val else f"Defaults {key}"
DefaultsLine(row) ==
    LET key == strip(row[1].text)
        val == strip(row[2].text)
    IN  IF val # <<>> THEN <<"Defaults", SP>> \o key \o <<"=">> \o val
        ELSE <<"Defaults", SP>> \o key

\* save_sudoers emitting the whole identity field as the alias name.
AliasLine_WithKind(row) ==
    strip(row[1].text) \o <<SP, "=", SP>> \o strip(row[2].text)

\* f"{alias_name} = {alias_val}" with alias_name = text.split()[-1]
AliasLine(row) ==
    LastPiece(row[1].text) \o <<SP, "=", SP>> \o strip(row[2].text)

RECURSIVE CollectDefaults(_, _)
CollectDefaults(d, r) ==
    IF r > Len(d) THEN <<>>
    ELSE <<DefaultsLine(d[r])>> \o CollectDefaults(d, r + 1)

RECURSIVE CollectAliases(_, _)
CollectAliases(a, r) ==
    IF r > Len(a) THEN <<>>
    ELSE <<AliasLine(a[r])>> \o CollectAliases(a, r + 1)

\* not (ln.strip().startswith("Defaults") or "_Alias" in ln)
Untouched(ln) ==
    ~(startswith(strip(ln), "Defaults") \/ \E i \in 1..Len(ln) : ln[i] \in AliasKw)

RECURSIVE UntouchedLines(_)
UntouchedLines(lines) ==
    IF lines = <<>> THEN <<>>
    ELSE (IF Untouched(Head(lines)) THEN <<Head(lines)>> ELSE <<>>)
             \o UntouchedLines(Tail(lines))

\* "\n".join(new_defaults + new_aliases + untouched_lines) + "\n"
Merged(d, a, text) ==
    join(CollectDefaults(d, 1) \o CollectAliases(a, 1)
            \o UntouchedLines(splitlines(text))) \o <<NL>>

\* text.split()[-1] raises IndexError on a blank identity.
MergeRaises(a) == \E r \in 1..Len(a) : ~HasPiece(a[r][1].text)

(***************************************************************************)
(* Files                                                                   *)
(***************************************************************************)
SUDOERS_PATH == "/etc/sudoers"
OtherPath == "/home/u/sudoers"
MissingPath == "/no/such/file"
tmp_path == "/tmp/sudoers.qtmp"
None == "<None>"

\* What QFileDialog.getOpenFileName can return; "" is a cancelled dialog.
DialogChoices == {"", SUDOERS_PATH, OtherPath, MissingPath, tmp_path}

ScenarioText ==
    <<"Defaults", SP, "env_reset", NL,
      "Defaults", SP, "timestamp_timeout", "=", "1", "5", NL,
      "User_Alias", SP, "ADMINS", SP, "=", SP, "alice", ",", "bob", NL,
      "#", SP, "a", SP, "comment", NL>>

MixedText ==
    <<"#", SP, "User_Alias", NL,
      "Defaults", ":", "N", SP, "!", "lecture", NL,
      "Defaults", SP, "lecture", "=", "sometimes", NL,
      "N", SP, "ALL", "=", "ALL", NL>>

BrokenAliasText ==
    <<"Defaults", SP, "use_pty", NL,
      "Runas_Alias", SP, "N", SP, "=", NL>>

OtherText ==
    <<"Host_Alias", SP, "M", "=", "a", NL,
      NL,
      SP, "ALL", SP, "ALL", "=", "ALL">>

SampleTexts == {ScenarioText, MixedText, BrokenAliasText}

(***************************************************************************)
(* Message boxes and diagnostics                                           *)
(***************************************************************************)
Box(kind, title, text) == [kind |-> kind, title |-> title, text |-> text]

\* str(exc) for the exception Path(path).read_text() raised.
ReadError(path) == <<"[Errno 2] No such file or directory: ", path>>

\* str(exc) for the exception shutil.copy2 raised.
CopyError == <<"[Errno 13] Permission denied">>

\* datetime.now().strftime("%Y%m%d-%H%M%S") at second t.
Timestamp(t) == <<"20260101-00000", ToString(t)>>

\* f"{self.current_file}.bak-{timestamp}"
BackupName(b) == <<b.of, ".bak-">> \o Timestamp(b.ts)

LoadErrorBox(path) == Box("critical", "Error", ReadError(path))
NothingToSaveBox == Box("information", "Nothing to save", <<"Open a file first.">>)
ReadOnlyBox == Box("information", "Read-only", <<"Enable editing first.">>)
SyntaxErrorBox == Box("critical", "Syntax error", <<"visudo reported errors.">>)
BackupFailedBox(b) ==
    Box("warning", "Backup failed",
        <<"Could not create backup '">> \o BackupName(b) \o <<"': ">> \o CopyError)
SavedBox(b) ==
    Box("information", "Saved",
        <<"sudoers updated successfully.", NL, "Backup: ">> \o BackupName(b))
SaveFailedBox == Box("critical", "Save failed", <<"visudo refused the new file.">>)

\* What a visudo run that fails can write to the stderr it inherits from the
\* window's process; subprocess.call captures none of it.
Diagnostics ==
    {<<"/tmp/sudoers.qtmp:1:1: syntax error">>,
     <<"visudo: /tmp/sudoers.qtmp: Permission denied">>}

DiagnosticsOf(rc) == IF rc = 0 THEN {<<>>} ELSE Diagnostics

(***************************************************************************)
(* What the cell editors can write                                         *)
(***************************************************************************)
\* QLineEdit on the Setting column: free text.
KeyTexts == {<<>>, <<"lecture">>, <<"N">>}

\* QLineEdit on a value of kind text or path, and on the Definition column.
FreeTexts == {<<>>, <<"abc">>}

\* str(v) for the QSpinBox values tried.
SpinTexts == {<<"-", "1">>, <<"9", "9", "9">>}

\* ValueDelegate.createEditor / setModelData: what the editor chosen for the
\* row's key can write into the Value cell.
ValueTexts(row) ==
    LET key == strip(row[1].text)
        kind == MetaType(key)
    IN  CASE kind = "bool" -> {<<>>, <<"true">>, <<"false">>}
          [] kind = "enum" -> MetaChoices(key)
          [] kind = "int" -> {t \in SpinTexts : MetaMin(key) <= int(t) /\ int(t) <= MetaMax(key)}
          [] OTHER -> FreeTexts

\* AliasTypeDelegate.setModelData: f"{editor.currentText()} {name_cell.data()}"
\* with name_cell = index.siblingAtColumn(1).
AliasTypeText(row, kw) == <<kw, SP>> \o row[2].text

(***************************************************************************)
(* State                                                                   *)
(***************************************************************************)
MaxEdits == 2
MaxAttempts == 1

\* The seconds datetime.now() can show.
Times == {0, 1}

VARIABLES
    fs,             \* path -> text, for the files that exist
    backups,        \* [of, ts] -> text: the file "<of>.bak-<ts>"
    clock,          \* the last second datetime.now() returned
    current_file,
    original_text,
    defaults_tab,   \* defaults_tab.table
    alias_tab,      \* alias_tab.table
    edit_toggle,    \* edit_toggle.isChecked()
    save_btn,       \* save_btn.isEnabled()
    raw_label,      \* the text shown by the Raw view
    parsed,         \* what parse_sudoers returned to populate_tabs
    pc,             \* where save_sudoers stands, or Idle, or Crashed
    merged,         \* save_sudoers' local
    backup,         \* save_sudoers' local
    calls,          \* the external calls of the current or last attempt
    pre,            \* current_file's content and the backups when it began
    outcome,        \* how the last attempt ended
    nEdits,         \* cell edits so far
    nAttempts,      \* Save clicks so far
    shown,          \* the message boxes the current or last handler showed
    stderr,         \* what the visudo calls of the attempt wrote to stderr
    seen,           \* the staging file's content as each visudo call found it
    other,          \* a second instance of the tool: where its save_sudoers stands
    dlg             \* the SecurePathDialog that is open, if one is

vars == <<fs, backups, clock, current_file, original_text, defaults_tab,
          alias_tab, edit_toggle, save_btn, raw_label, parsed, pc, merged,
          backup, calls, pre, outcome, nEdits, nAttempts, shown, stderr,
          seen, other, dlg>>

W == [d |-> defaults_tab, a |-> alias_tab, edit |-> edit_toggle,
      save |-> save_btn, raw |-> raw_label, parsed |-> parsed,
      crashed |-> FALSE]

Content(f, path) == IF path \in DOMAIN f THEN {f[path]} ELSE {}

Unlink(f, path) == [q \in DOMAIN f \ {path} |-> f[q]]

WriteFile(f, path, text) ==
    [q \in DOMAIN f \cup {path} |-> IF q = path THEN text ELSE f[q]]

\* open_sudoers without its final edit_toggle.setChecked(False).
open_sudoers_KeepsToggle(st, path, f) ==
    IF path \notin DOMAIN f THEN st
    ELSE [cur |-> path, text |-> f[path], w |-> populate_tabs(st.w, f[path])]

\* open_sudoers assigning current_file before it reads the file.
open_sudoers_AssignsBeforeRead(st, path, f) ==
    IF path \notin DOMAIN f THEN [st EXCEPT !.cur = path]
    ELSE [cur |-> path, text |-> f[path],
          w |-> SetChecked(populate_tabs(st.w, f[path]), FALSE)]

\* open_sudoers from `path` on: read, assign, populate, setChecked(False).
\* A path that cannot be read leaves everything as it was.
open_sudoers(st, path, f) ==
    IF path \notin DOMAIN f THEN st
    ELSE [cur |-> path, text |-> f[path],
          w |-> SetChecked(populate_tabs(st.w, f[path]), FALSE)]

St(cur, text, w) == [cur |-> cur, text |-> text, w |-> w]

EmptyWindow ==
    [d |-> <<>>, a |-> <<>>, edit |-> FALSE, save |-> FALSE, raw |-> <<>>,
     parsed |-> NoParse, crashed |-> FALSE]

InitFs ==
    {[q \in {SUDOERS_PATH, OtherPath} |->
        IF q = SUDOERS_PATH THEN t ELSE OtherText] : t \in SampleTexts}
      \cup {[q \in {OtherPath} |-> OtherText]}

NoBackup == [of |-> None, ts |-> 0]
NoSeen == [checked |-> {}, written |-> {}]
OtherIdle == [pc |-> "Idle", merged |-> <<>>]
NoDialog == [open |-> FALSE]
NoPre ==
    [cur |-> None, file |-> {}, baks |-> [q \in {} |-> <<>>], text |-> <<>>,
     d |-> <<>>, a |-> <<>>, edit |-> FALSE, save |-> FALSE]

\* SudoGUI.__init__ with the autoload setting on or off.
Init ==
    \E f \in InitFs, autoload \in BOOLEAN :
        LET st0 == St(None, <<>>, EmptyWindow)
            st == IF autoload THEN open_sudoers(st0, SUDOERS_PATH, f) ELSE st0
        IN  /\ fs = f
            /\ backups = [q \in {} |-> <<>>]
            /\ clock = 0
            /\ current_file = st.cur
            /\ original_text = st.text
            /\ defaults_tab = st.w.d
            /\ alias_tab = st.w.a
            /\ edit_toggle = st.w.edit
            /\ save_btn = st.w.save
            /\ raw_label = st.w.raw
            /\ parsed = st.w.parsed
            /\ pc = "Idle"
            /\ merged = <<>>
            /\ backup = NoBackup
            /\ calls = <<>>
            /\ pre = NoPre
            /\ outcome = "none"
            /\ nEdits = 0
            /\ nAttempts = 0
            /\ shown = IF autoload /\ SUDOERS_PATH \notin DOMAIN f
                       THEN <<LoadErrorBox(SUDOERS_PATH)>> ELSE <<>>
            /\ stderr = <<>>
            /\ seen = NoSeen
            /\ other = OtherIdle
            /\ dlg = NoDialog

\* The window after a handler.  An exception that leaves a slot ends the
\* process (PyQt aborts on an unhandled exception), and its window with it.
SetWindow(w, next) ==
    LET v == IF w.crashed THEN EmptyWindow ELSE w
    IN  /\ defaults_tab' = v.d
        /\ alias_tab' = v.a
        /\ edit_toggle' = v.edit
        /\ save_btn' = v.save
        /\ raw_label' = v.raw
        /\ parsed' = v.parsed
        /\ pc' = IF w.crashed THEN "Crashed" ELSE next

\* save_sudoers has returned and another event is handled: its locals and
\* the record of its calls are gone.
AttemptForgotten ==
    /\ merged' = <<>>
    /\ backup' = NoBackup
    /\ calls' = <<>>
    /\ pre' = NoPre
    /\ outcome' = "none"
    /\ stderr' = <<>>
    /\ seen' = NoSeen
    /\ UNCHANGED nAttempts

(***************************************************************************)
(* User events, accepted while no handler is running.  The session that is *)
(* followed ends when MaxAttempts commit attempts have returned.           *)
(***************************************************************************)
\* The Open button: open_sudoers() with the file dialog's answer.
OpenClicked ==
    /\ pc = "Idle"
    /\ nAttempts < MaxAttempts
    /\ \E path \in DialogChoices :
        LET st == IF path = "" THEN St(current_file, original_text, W)
                  ELSE open_sudoers(St(current_file, original_text, W), path, fs)
        IN  /\ current_file' = st.cur
            /\ original_text' = st.text
            /\ SetWindow(st.w, "Idle")
            /\ shown' = IF path # "" /\ path \notin DOMAIN fs
                        THEN <<LoadErrorBox(path)>> ELSE <<>>
    /\ UNCHANGED <<fs, backups, clock, nEdits>>
    /\ AttemptForgotten
    /\ UNCHANGED <<other, dlg>>

\* A click on the edit toggle: toggled -> set_editable -> _update_validation.
EditToggled ==
    /\ pc = "Idle"
    /\ nAttempts < MaxAttempts
    /\ SetWindow(SetChecked(W, ~edit_toggle), "Idle")
    /\ shown' = <<>>
    /\ UNCHANGED <<fs, backups, clock, current_file, original_text, nEdits>>
    /\ AttemptForgotten
    /\ UNCHANGED <<other, dlg>>

\* A cell editor committing `text` into cell (r, c) of a table; cells open
\* for editing only while the toggle is checked (set_editable's triggers).
CellEdited(tab, r, c, text) ==
    /\ pc = "Idle"
    /\ nAttempts < MaxAttempts
    /\ edit_toggle
    /\ nEdits < MaxEdits
    /\ CellOf(W, tab, r, c).text # text
    /\ SetWindow(SetText(W, tab, r, c, text), "Idle")
    /\ nEdits' = nEdits + 1
    /\ shown' = <<>>
    /\ UNCHANGED <<fs, backups, clock, current_file, original_text>>
    /\ AttemptForgotten
    /\ UNCHANGED <<other, dlg>>

EditDefaultsKey ==
    \E r \in 1..Len(defaults_tab), text \in KeyTexts :
        CellEdited("defaults", r, 1, text)

EditDefaultsValue ==
    \E r \in 1..Len(defaults_tab) :
        \E text \in ValueTexts(defaults_tab[r]) :
            CellEdited("defaults", r, 2, text)

EditAliasType ==
    \E r \in 1..Len(alias_tab), kw \in AliasKw :
        CellEdited("alias", r, 1, AliasTypeText(alias_tab[r], kw))

EditAliasDefinition ==
    \E r \in 1..Len(alias_tab), text \in FreeTexts :
        CellEdited("alias", r, 2, text)

(***************************************************************************)
(* save_sudoers, one step per external call                                *)
(***************************************************************************)
Call(op, rc) == [op |-> op, rc |-> rc]

\* The Save button, clickable while enabled: the two early returns, else the
\* merged text is built and written to the staging file.
SaveClicked ==
    /\ pc = "Idle"
    /\ save_btn
    /\ nAttempts < MaxAttempts
    /\ nAttempts' = nAttempts + 1
    /\ calls' = <<>>
    /\ pre' = [cur |-> current_file, file |-> Content(fs, current_file),
                baks |-> backups, text |-> original_text, d |-> defaults_tab,
                a |-> alias_tab, edit |-> edit_toggle, save |-> save_btn]
    /\ stderr' = <<>>
    /\ IF current_file = None \/ ~edit_toggle
       THEN /\ outcome' = "NothingToSave"
            /\ pc' = "Idle"
            /\ shown' = IF current_file = None THEN <<NothingToSaveBox>>
                        ELSE <<ReadOnlyBox>>
            /\ UNCHANGED <<fs, merged>>
       ELSE IF MergeRaises(alias_tab)
       THEN /\ outcome' = "Raised"
            /\ pc' = "Crashed"
            /\ shown' = <<>>
            /\ UNCHANGED <<fs, merged>>
       ELSE /\ merged' = Merged(defaults_tab, alias_tab, original_text)
            /\ fs' = WriteFile(fs, tmp_path, merged')
            /\ outcome' = "Staged"
            /\ pc' = "Staged"
            /\ shown' = <<>>
    /\ UNCHANGED <<backups, clock, current_file, original_text, defaults_tab,
                   alias_tab, edit_toggle, save_btn, raw_label, parsed,
                   backup, nEdits>>
    /\ seen' = NoSeen
    /\ UNCHANGED <<other, dlg>>

\* save_sudoers going on to the backup whatever visudo -c returned.
CheckReturned_IgnoresResult(rc) ==
    /\ pc = "Staged"
    /\ calls' = Append(calls, [op |-> "check", rc |-> rc])
    /\ \E diag \in DiagnosticsOf(rc) : stderr' = Append(stderr, diag)
    /\ outcome' = "Checked"
    /\ pc' = "Checked"
    /\ UNCHANGED <<fs, backups, clock, current_file, original_text,
                   defaults_tab, alias_tab, edit_toggle, save_btn, raw_label,
                   parsed, merged, backup, pre, nEdits, nAttempts, shown>>
    /\ seen' = [seen EXCEPT !.checked = Content(fs, tmp_path)]
    /\ UNCHANGED <<other, dlg>>

\* subprocess.call(["sudo", "visudo", "-c", "-f", tmp_path]) returned rc.
CheckReturned(rc) ==
    /\ pc = "Staged"
    /\ calls' = Append(calls, Call("check", rc))
    /\ \E diag \in DiagnosticsOf(rc) : stderr' = Append(stderr, diag)
    /\ IF rc # 0
       THEN /\ shown' = Append(shown, SyntaxErrorBox)
            /\ fs' = Unlink(fs, tmp_path)
            /\ outcome' = "CheckFailed"
            /\ pc' = "Idle"
       ELSE /\ outcome' = "Checked"
            /\ pc' = "Checked"
            /\ UNCHANGED <<fs, shown>>
    /\ UNCHANGED <<backups, clock, current_file, original_text, defaults_tab,
                   alias_tab, edit_toggle, save_btn, raw_label, parsed,
                   merged, backup, pre, nEdits, nAttempts>>
    /\ seen' = [seen EXCEPT !.checked = Content(fs, tmp_path)]
    /\ UNCHANGED <<other, dlg>>

\* save_sudoers with the backup block placed before the visudo -c call.
BackupReturned_BeforeCheck(t, copied) ==
    /\ pc = "Staged"
    /\ t >= clock
    /\ copied => current_file \in DOMAIN fs
    /\ clock' = t
    /\ backup' = [of |-> current_file, ts |-> t]
    /\ calls' = Append(calls, [op |-> "backup", rc |-> IF copied THEN 0 ELSE 1])
    /\ backups' = IF copied THEN WriteFile(backups, backup', fs[current_file])
                  ELSE backups
    /\ shown' = IF copied THEN shown ELSE Append(shown, BackupFailedBox(backup'))
    /\ outcome' = "BackedUp"
    /\ pc' = "BackedUp"
    /\ UNCHANGED <<fs, current_file, original_text, defaults_tab, alias_tab,
                   edit_toggle, save_btn, raw_label, parsed, merged, pre,
                   nEdits, nAttempts, stderr>>
    /\ UNCHANGED <<seen, other, dlg>>

\* save_sudoers returning after the warning when the copy has failed.
BackupReturned_AbortsOnFailure(t, copied) ==
    /\ pc = "Checked"
    /\ t >= clock
    /\ copied => current_file \in DOMAIN fs
    /\ clock' = t
    /\ backup' = [of |-> current_file, ts |-> t]
    /\ calls' = Append(calls, [op |-> "backup", rc |-> IF copied THEN 0 ELSE 1])
    /\ backups' = IF copied THEN WriteFile(backups, backup', fs[current_file])
                  ELSE backups
    /\ shown' = IF copied THEN shown ELSE Append(shown, BackupFailedBox(backup'))
    /\ outcome' = IF copied THEN "BackedUp" ELSE "BackupFailed"
    /\ pc' = IF copied THEN "BackedUp" ELSE "Idle"
    /\ fs' = IF copied THEN fs ELSE Unlink(fs, tmp_path)
    /\ UNCHANGED <<current_file, original_text, defaults_tab, alias_tab,
                   edit_toggle, save_btn, raw_label, parsed, merged, pre,
                   nEdits, nAttempts, stderr>>
    /\ UNCHANGED <<seen, other, dlg>>

\* shutil.copy2(current_file, backup) at second t: it copies, or raises and
\* the warning is shown; it cannot copy a file that is not there.
BackupReturned(t, copied) ==
    /\ pc = "Checked"
    /\ t >= clock
    /\ copied => current_file \in DOMAIN fs
    /\ clock' = t
    /\ backup' = [of |-> current_file, ts |-> t]
    /\ calls' = Append(calls, Call("backup", IF copied THEN 0 ELSE 1))
    /\ backups' = IF copied THEN WriteFile(backups, backup', fs[current_file])
                  ELSE backups
    /\ shown' = IF copied THEN shown ELSE Append(shown, BackupFailedBox(backup'))
    /\ outcome' = "BackedUp"
    /\ pc' = "BackedUp"
    /\ UNCHANGED <<fs, current_file, original_text, defaults_tab, alias_tab,
                   edit_toggle, save_btn, raw_label, parsed, merged, pre,
                   nEdits, nAttempts, stderr>>
    /\ UNCHANGED <<seen, other, dlg>>

\* save_sudoers taking the success branch whatever visudo -s returned.
WriteReturned_AlwaysCommits(rc) ==
    /\ pc = "BackedUp"
    /\ calls' = Append(calls, [op |-> "write", rc |-> rc])
    /\ \E diag \in DiagnosticsOf(rc) : stderr' = Append(stderr, diag)
    /\ shown' = Append(shown, IF rc = 0 THEN SavedBox(backup) ELSE SaveFailedBox)
    /\ original_text' = merged
    /\ SetWindow(SetChecked(W, FALSE), IF rc = 0 THEN "Written" ELSE "Idle")
    /\ outcome' = IF rc = 0 THEN "Written" ELSE "WriteFailed"
    /\ fs' = IF rc = 0 THEN fs ELSE Unlink(fs, tmp_path)
    /\ UNCHANGED <<backups, clock, current_file, merged, backup, pre, nEdits,
                   nAttempts>>
    /\ seen' = [seen EXCEPT !.written = Content(fs, tmp_path)]
    /\ UNCHANGED <<other, dlg>>

\* save_sudoers never returning after a failed visudo -s.
WriteReturned_StaysFailed(rc) ==
    /\ pc = "BackedUp"
    /\ calls' = Append(calls, [op |-> "write", rc |-> rc])
    /\ \E diag \in DiagnosticsOf(rc) : stderr' = Append(stderr, diag)
    /\ IF rc = 0
       THEN /\ shown' = Append(shown, SavedBox(backup))
            /\ original_text' = merged
            /\ SetWindow(SetChecked(W, FALSE), "Written")
            /\ outcome' = "Written"
            /\ UNCHANGED fs
       ELSE /\ shown' = Append(shown, SaveFailedBox)
            /\ outcome' = "WriteFailed"
            /\ pc' = "WriteFailed"
            /\ UNCHANGED <<fs, original_text, defaults_tab, alias_tab,
                           edit_toggle, save_btn, raw_label, parsed>>
    /\ UNCHANGED <<backups, clock, current_file, merged, backup, pre, nEdits,
                   nAttempts>>
    /\ seen' = [seen EXCEPT !.written = Content(fs, tmp_path)]
    /\ UNCHANGED <<other, dlg>>

\* subprocess.call(["sudo", "visudo", "-s", "-f", tmp_path]) returned rc.
\* visudo -f names the file visudo works on: the command line holds the
\* staging path and no other, so no other file is written by the call.
WriteReturned(rc) ==
    /\ pc = "BackedUp"
    /\ calls' = Append(calls, Call("write", rc))
    /\ \E diag \in DiagnosticsOf(rc) : stderr' = Append(stderr, diag)
    /\ IF rc = 0
       THEN /\ shown' = Append(shown, SavedBox(backup))
            /\ original_text' = merged
            /\ SetWindow(SetChecked(W, FALSE), "Written")
            /\ outcome' = "Written"
            /\ UNCHANGED fs
       ELSE /\ shown' = Append(shown, SaveFailedBox)
            /\ fs' = Unlink(fs, tmp_path)
            /\ outcome' = "WriteFailed"
            /\ pc' = "Idle"
            /\ UNCHANGED <<original_text, defaults_tab, alias_tab,
                           edit_toggle, save_btn, raw_label, parsed>>
    /\ UNCHANGED <<backups, clock, current_file, merged, backup, pre, nEdits,
                   nAttempts>>
    /\ seen' = [seen EXCEPT !.written = Content(fs, tmp_path)]
    /\ UNCHANGED <<other, dlg>>

\* save_sudoers returning after the reload without the final unlink.
ReloadAnswered_NoUnlink(path) ==
    /\ pc = "Written"
    /\ LET st == IF path = "" THEN St(current_file, original_text, W)
                 ELSE open_sudoers(St(current_file, original_text, W), path, fs)
       IN  /\ current_file' = st.cur
           /\ original_text' = st.text
           /\ SetWindow(st.w, "Idle")
    /\ shown' = IF path # "" /\ path \notin DOMAIN fs
                THEN Append(shown, LoadErrorBox(path)) ELSE shown
    /\ outcome' = "Reloaded"
    /\ UNCHANGED <<fs, backups, clock, merged, backup, calls, pre, nEdits,
                   nAttempts, stderr>>
    /\ UNCHANGED <<seen, other, dlg>>

\* self.open_sudoers() after a successful write: no path is passed, so the
\* file dialog is shown; then the staging file is unlinked.
ReloadAnswered(path) ==
    /\ pc = "Written"
    /\ LET st == IF path = "" THEN St(current_file, original_text, W)
                 ELSE open_sudoers(St(current_file, original_text, W), path, fs)
       IN  /\ current_file' = st.cur
           /\ original_text' = st.text
           /\ SetWindow(st.w, "Idle")
    /\ shown' = IF path # "" /\ path \notin DOMAIN fs
                THEN Append(shown, LoadErrorBox(path)) ELSE shown
    /\ fs' = Unlink(fs, tmp_path)
    /\ outcome' = "Reloaded"
    /\ UNCHANGED <<backups, clock, merged, backup, calls, pre, nEdits,
                   nAttempts, stderr>>
    /\ UNCHANGED <<seen, other, dlg>>

Next ==
    \/ OpenClicked
    \/ EditToggled
    \/ EditDefaultsKey
    \/ EditDefaultsValue
    \/ EditAliasType
    \/ EditAliasDefinition
    \/ SaveClicked
    \/ \E rc \in {0, 1} : CheckReturned(rc)
    \/ \E t \in Times, copied \in BOOLEAN : BackupReturned(t, copied)
    \/ \E rc \in {0, 1} : WriteReturned(rc)
    \/ \E path \in DialogChoices : ReloadAnswered(path)

Spec == Init /\ [][Next]_vars

\* Every external call of a running save_sudoers returns.
Returns ==
    \/ \E rc \in {0, 1} : CheckReturned(rc)
    \/ \E t \in Times, copied \in BOOLEAN : BackupReturned(t, copied)
    \/ \E rc \in {0, 1} : WriteReturned(rc)

\* The file dialog of the reload does not stay open for ever.  Cancel is
\* among its answers as long as it is open, and any answer closes it, so
\* weak fairness on Cancel excludes the behaviours that never answer and no
\* other.
DialogClosed == ReloadAnswered("")

LiveSpec == Spec /\ WF_vars(Returns) /\ WF_vars(DialogClosed)

(***************************************************************************)
(* The text pipeline on every small text: the file is loaded at start-up,  *)
(* editing is enabled, Save stages the merged text and visudo -c rejects   *)
(* it.                                                                     *)
(***************************************************************************)
MaxTextLen == 4
MaxLines == 3

TinyTokens == {"Defaults", "User_Alias", SP, "#", "N", "=", NL}

TinyTexts == UNION {[1..n -> TinyTokens] : n \in 0..MaxTextLen}

LinePool ==
    {<<"Defaults", SP, "N", "=", "M">>,
     <<SP, "Defaults", SP, SP, "use_pty">>,
     <<"User_Alias", SP, "N", "=", "M">>,
     <<"#", SP, "User_Alias">>,
     <<>>,
     <<"N", SP, "ALL", "=", "ALL">>,
     <<"Defaults", ":", "N">>}

PoolTexts ==
    {join(ls) \o tail : ls \in UNION {[1..n -> LinePool] : n \in 0..MaxLines},
                        tail \in {<<>>, <<NL>>}}

ParseTexts == TinyTexts \cup PoolTexts

ParseInit ==
    \E t \in ParseTexts :
        LET f == [q \in {SUDOERS_PATH} |-> t]
            st == open_sudoers(St(None, <<>>, EmptyWindow), SUDOERS_PATH, f)
        IN  /\ fs = f
            /\ backups = [q \in {} |-> <<>>]
            /\ clock = 0
            /\ current_file = st.cur
            /\ original_text = st.text
            /\ defaults_tab = st.w.d
            /\ alias_tab = st.w.a
            /\ edit_toggle = st.w.edit
            /\ save_btn = st.w.save
            /\ raw_label = st.w.raw
            /\ parsed = st.w.parsed
            /\ pc = "Idle"
            /\ merged = <<>>
            /\ backup = NoBackup
            /\ calls = <<>>
            /\ pre = NoPre
            /\ outcome = "none"
            /\ nEdits = 0
            /\ nAttempts = 0
            /\ shown = <<>>
            /\ stderr = <<>>
            /\ seen = NoSeen
            /\ other = OtherIdle
            /\ dlg = NoDialog

ParseNext ==
    \/ EditToggled
    \/ SaveClicked
    \/ \E rc \in {1} : CheckReturned(rc)

ParseSpec == ParseInit /\ [][ParseNext]_vars

(***************************************************************************)
(* Row validation on many rows: a file of one Defaults line, or of an      *)
(* invalid Defaults line and an alias line, is loaded at start-up; the     *)
(* toggle is clicked and cells are edited.                                 *)
(***************************************************************************)
RowKeys == MetaKeys \cup {<<>>, <<"N">>}

RowValues ==
    {<<>>, <<"true">>, <<"false">>, <<"yes">>, <<"once">>, <<"sometimes">>,
     <<"abc">>, <<"5">>, <<"-", "5">>, <<"-", "1">>, <<"-", "2">>,
     <<"9", "9", "9">>, <<"1", "0", "0", "0">>, <<"+", "5">>,
     <<"1", "_", "0">>, <<"5", "_">>, <<"-", SP, "5">>, <<"-">>,
     <<"/", "usr", "/", "bin">>}

DefaultsTexts ==
    {<<"Defaults", SP>> \o key \o <<"=">> \o val :
        key \in RowKeys, val \in RowValues}

AliasTexts ==
    {<<"Defaults", SP, "timestamp_timeout", "=", "abc", NL,
       "User_Alias", SP, "N", SP, "=">> \o defn : defn \in {<<>>, <<SP, "a">>}}

RowTexts == DefaultsTexts \cup AliasTexts

RowInit ==
    \E t \in RowTexts :
        LET f == [q \in {SUDOERS_PATH} |-> t]
            st == open_sudoers(St(None, <<>>, EmptyWindow), SUDOERS_PATH, f)
        IN  /\ fs = f
            /\ backups = [q \in {} |-> <<>>]
            /\ clock = 0
            /\ current_file = st.cur
            /\ original_text = st.text
            /\ defaults_tab = st.w.d
            /\ alias_tab = st.w.a
            /\ edit_toggle = st.w.edit
            /\ save_btn = st.w.save
            /\ raw_label = st.w.raw
            /\ parsed = st.w.parsed
            /\ pc = "Idle"
            /\ merged = <<>>
            /\ backup = NoBackup
            /\ calls = <<>>
            /\ pre = NoPre
            /\ outcome = "none"
            /\ nEdits = 0
            /\ nAttempts = 0
            /\ shown = <<>>
            /\ stderr = <<>>
            /\ seen = NoSeen
            /\ other = OtherIdle
            /\ dlg = NoDialog

RowNext ==
    \/ EditToggled
    \/ EditDefaultsKey
    \/ EditDefaultsValue
    \/ EditAliasType
    \/ EditAliasDefinition

RowSpec == RowInit /\ [][RowNext]_vars

(***************************************************************************)
(* A second instance of the program on the same machine.  Of its           *)
(* save_sudoers only what other processes can see is followed: the staging *)
(* file at the fixed path, the backup files and the wall clock; `other`    *)
(* holds its position in save_sudoers and its merged text.                 *)
(***************************************************************************)
OtherFrame ==
    UNCHANGED <<current_file, original_text, defaults_tab, alias_tab,
                edit_toggle, save_btn, raw_label, parsed, pc, merged, backup,
                calls, pre, outcome, nEdits, nAttempts, shown, stderr, seen,
                dlg>>

\* Its Save button: its merged text is written to /tmp/sudoers.qtmp.
OtherSaveClicked(text) ==
    /\ other.pc = "Idle"
    /\ fs' = WriteFile(fs, tmp_path, text)
    /\ other' = [pc |-> "Staged", merged |-> text]
    /\ UNCHANGED <<backups, clock>>
    /\ OtherFrame

\* Its visudo -c returning rc.
OtherCheckReturned(rc) ==
    /\ other.pc = "Staged"
    /\ IF rc # 0
       THEN /\ fs' = Unlink(fs, tmp_path)
            /\ other' = OtherIdle
       ELSE /\ other' = [other EXCEPT !.pc = "Checked"]
            /\ UNCHANGED fs
    /\ UNCHANGED <<backups, clock>>
    /\ OtherFrame

\* Its backup block, at second t.
OtherBackupReturned(t, copied) ==
    /\ other.pc = "Checked"
    /\ t >= clock
    /\ copied => SUDOERS_PATH \in DOMAIN fs
    /\ clock' = t
    /\ backups' = IF copied
                  THEN WriteFile(backups, [of |-> SUDOERS_PATH, ts |-> t],
                                 fs[SUDOERS_PATH])
                  ELSE backups
    /\ other' = [other EXCEPT !.pc = "BackedUp"]
    /\ UNCHANGED fs
    /\ OtherFrame

\* Its visudo -s returning rc.
OtherWriteReturned(rc) ==
    /\ other.pc = "BackedUp"
    /\ IF rc = 0
       THEN /\ other' = [other EXCEPT !.pc = "Written"]
            /\ UNCHANGED fs
       ELSE /\ fs' = Unlink(fs, tmp_path)
            /\ other' = OtherIdle
    /\ UNCHANGED <<backups, clock>>
    /\ OtherFrame

\* Its reload dialog answered, then tmp_path.unlink(missing_ok=True).
OtherReloadAnswered ==
    /\ other.pc = "Written"
    /\ fs' = Unlink(fs, tmp_path)
    /\ other' = OtherIdle
    /\ UNCHANGED <<backups, clock>>
    /\ OtherFrame

\* Both instances were started on /etc/sudoers.
TwoInit ==
    LET f == [q \in {SUDOERS_PATH} |-> ScenarioText]
        st == open_sudoers(St(None, <<>>, EmptyWindow), SUDOERS_PATH, f)
    IN  /\ fs = f
        /\ backups = [q \in {} |-> <<>>]
        /\ clock = 0
        /\ current_file = st.cur
        /\ original_text = st.text
        /\ defaults_tab = st.w.d
        /\ alias_tab = st.w.a
        /\ edit_toggle = st.w.edit
        /\ save_btn = st.w.save
        /\ raw_label = st.w.raw
        /\ parsed = st.w.parsed
        /\ pc = "Idle"
        /\ merged = <<>>
        /\ backup = NoBackup
        /\ calls = <<>>
        /\ pre = NoPre
        /\ outcome = "none"
        /\ nEdits = 0
        /\ nAttempts = 0
        /\ shown = <<>>
        /\ stderr = <<>>
        /\ seen = NoSeen
        /\ other = OtherIdle
        /\ dlg = NoDialog

TwoNext ==
    \/ EditToggled
    \/ EditDefaultsValue
    \/ SaveClicked
    \/ \E rc \in {0, 1} : CheckReturned(rc)
    \/ \E t \in Times, copied \in BOOLEAN : BackupReturned(t, copied)
    \/ \E rc \in {0, 1} : WriteReturned(rc)
    \/ \E path \in {"", SUDOERS_PATH} : ReloadAnswered(path)
    \/ \E text \in {OtherText, MixedText} : OtherSaveClicked(text)
    \/ \E rc \in {0, 1} : OtherCheckReturned(rc)
    \/ \E t \in Times, copied \in BOOLEAN : OtherBackupReturned(t, copied)
    \/ \E rc \in {0, 1} : OtherWriteReturned(rc)
    \/ OtherReloadAnswered

TwoSpec == TwoInit /\ [][TwoNext]_vars

(***************************************************************************)
(* widgets/secure_path.py: SecurePathDialog.  A secure_path value is a     *)
(* sequence of tokens: the double quote, the colon, and runs of other      *)
(* characters.  The list holds one such sequence per item; rows are        *)
(* numbered from 0 and currentRow is -1 when there is none, as in Qt.      *)
(***************************************************************************)
Q == "\""

RECURSIVE LeadingQuotes(_)
LeadingQuotes(s) ==
    IF s # <<>> /\ Head(s) = Q THEN 1 + LeadingQuotes(Tail(s)) ELSE 0

RECURSIVE TrailingQuotes(_)
TrailingQuotes(s) ==
    IF s # <<>> /\ s[Len(s)] = Q
    THEN 1 + TrailingQuotes(SubSeq(s, 1, Len(s) - 1)) ELSE 0

\* initial.strip('"'): every leading and every trailing double quote goes.
StripQuotes(s) ==
    IF LeadingQuotes(s) = Len(s) THEN <<>>
    ELSE SubSeq(s, LeadingQuotes(s) + 1, Len(s) - TrailingQuotes(s))

\* s.split(":"): the runs between colons, the empty ones included.
RECURSIVE SplitColon(_, _)
SplitColon(s, cur) ==
    IF s = <<>> THEN <<cur>>
    ELSE IF Head(s) = ":" THEN <<cur>> \o SplitColon(Tail(s), <<>>)
    ELSE SplitColon(Tail(s), Append(cur, Head(s)))

\* ":".join(items)
RECURSIVE JoinColon(_)
JoinColon(items) ==
    IF items = <<>> THEN <<>>
    ELSE IF Len(items) = 1 THEN items[1]
    ELSE items[1] \o <<":">> \o JoinColon(Tail(items))

\* SecurePathDialog.result
Result(items) ==
    IF items # <<>> THEN <<Q>> \o JoinColon(items) \o <<Q>> ELSE <<>>

MaxPathLen == 3
MaxOps == 3

\* The texts the Value cell of the secure_path row can hold when the dialog
\* is opened.
InitialValues ==
    UNION {[1..n -> {Q, ":", "/usr/bin", "/bin"}] : n \in 0..MaxPathLen}
      \cup {<<Q, "/usr/bin", ":", "/bin", Q>>,
             <<Q, Q, "/usr/bin", Q, Q>>,
             <<"/usr/bin", ":", "/bin", ":", "/usr/bin">>}

\* What QFileDialog.getExistingDirectory can return; "" is a cancelled
\* dialog.  A directory name may end with a double quote.
Directories == {<<>>, <<"/usr/bin">>, <<"/bin">>, <<"/BIN">>, <<"/bin", Q>>}

\* SecurePathDialog.__init__(parent, initial): the list gets an item for
\* every non-empty segment of `initial`, duplicates and all.
NewDialog(initial) ==
    [open |-> TRUE, initial |-> initial,
     list |-> IF initial = <<>> THEN <<>>
              ELSE SelectSeq(SplitColon(StripQuotes(initial), <<>>),
                             LAMBDA p : p # <<>>),
     row |-> -1, n |-> 0, last |-> [op |-> "init", arg |-> <<>>],
     prev |-> <<>>, done |-> FALSE, result |-> <<>>]

WindowIdle ==
    UNCHANGED <<fs, backups, clock, current_file, original_text, defaults_tab,
                alias_tab, edit_toggle, save_btn, raw_label, parsed, pc,
                merged, backup, calls, pre, outcome, nEdits, nAttempts, shown,
                stderr, seen, other>>

\* A button slot of the open dialog: the list and current row it leaves.
Step(op, arg, list, row) ==
    /\ dlg.open /\ ~dlg.done /\ dlg.n < MaxOps
    /\ dlg' = [dlg EXCEPT !.list = list, !.row = row, !.n = @ + 1,
                       !.last = [op |-> op, arg |-> arg], !.prev = dlg.list]

\* _add_path appending whatever the list holds.
AddPath_NoCheck(directory) ==
    /\ Step("add", directory,
            IF directory # <<>> THEN Append(dlg.list, directory) ELSE dlg.list,
            dlg.row)
    /\ WindowIdle

\* _add_path with the directory the file dialog returned.
AddPath(directory) ==
    /\ Step("add", directory,
            IF /\ directory # <<>>
               /\ \A i \in 1..Len(dlg.list) : dlg.list[i] # directory
            THEN Append(dlg.list, directory) ELSE dlg.list,
            dlg.row)
    /\ WindowIdle

RemoveAt(list, i) == SubSeq(list, 1, i - 1) \o SubSeq(list, i + 1, Len(list))

InsertAt(list, i, x) == SubSeq(list, 1, i - 1) \o <<x>> \o SubSeq(list, i, Len(list))

\* _remove_selected: the list is in single-selection mode, the selected
\* item is the current one.  Qt then makes a neighbour the current item.
RemoveSelected ==
    /\ dlg.row # -1
    /\ LET list == RemoveAt(dlg.list, dlg.row + 1)
       IN  Step("remove", dlg.list[dlg.row + 1], list,
                IF list = <<>> THEN -1
                ELSE IF dlg.row < Len(list) THEN dlg.row ELSE Len(list) - 1)
    /\ WindowIdle

\* _move(delta)
Move(delta) ==
    /\ LET row == dlg.row
           new_row == row + delta
       IN  IF row # -1 /\ 0 <= new_row /\ new_row < Len(dlg.list)
           THEN Step("move", dlg.list[row + 1],
                     InsertAt(RemoveAt(dlg.list, row + 1), new_row + 1,
                              dlg.list[row + 1]),
                     new_row)
           ELSE Step("move", <<>>, dlg.list, row)
    /\ WindowIdle

\* A click on item i of the list.
RowClicked(i) ==
    /\ dlg.open /\ ~dlg.done
    /\ i \in 0..(Len(dlg.list) - 1)
    /\ i # dlg.row
    /\ dlg' = [dlg EXCEPT !.row = i]
    /\ WindowIdle

\* OK: SecurePathWidget._edit reads dlg.result.
Accepted ==
    /\ dlg.open /\ ~dlg.done
    /\ dlg' = [dlg EXCEPT !.done = TRUE, !.result = Result(dlg.list)]
    /\ WindowIdle

PathInit ==
    \E initial \in InitialValues :
        /\ fs = [q \in {OtherPath} |-> OtherText]
        /\ backups = [q \in {} |-> <<>>]
        /\ clock = 0
        /\ current_file = None
        /\ original_text = <<>>
        /\ defaults_tab = <<>>
        /\ alias_tab = <<>>
        /\ edit_toggle = FALSE
        /\ save_btn = FALSE
        /\ raw_label = <<>>
        /\ parsed = NoParse
        /\ pc = "Idle"
        /\ merged = <<>>
        /\ backup = NoBackup
        /\ calls = <<>>
        /\ pre = NoPre
        /\ outcome = "none"
        /\ nEdits = 0
        /\ nAttempts = 0
        /\ shown = <<>>
        /\ stderr = <<>>
        /\ seen = NoSeen
        /\ other = OtherIdle
        /\ dlg = NewDialog(initial)

PathNext ==
    \/ \E directory \in Directories : AddPath(directory)
    \/ RemoveSelected
    \/ \E delta \in {-1, 1} : Move(delta)
    \/ \E i \in 0..(MaxPathLen + MaxOps) : RowClicked(i)
    \/ Accepted

PathSpec == PathInit /\ [][PathNext]_vars

(***************************************************************************)
(* Properties                                                              *)
(***************************************************************************)
Invoked(op) == \E i \in 1..Len(calls) : calls[i].op = op
CheckRejected == \E i \in 1..Len(calls) : calls[i].op = "check" /\ calls[i].rc # 0
Attempting == pc \in {"Staged", "Checked", "BackedUp"}
Unedited ==
    /\ \A r \in 1..Len(defaults_tab) : \A c \in 1..2 :
          defaults_tab[r][c].text = defaults_tab[r][c].orig
    /\ \A r \in 1..Len(alias_tab) : \A c \in 1..2 :
          alias_tab[r][c].text = alias_tab[r][c].orig

\* C1 (commit gate): once visudo -c has returned non-zero in a commit
\* attempt, the file at current_file has the content it had when the attempt
\* began, the backup files are those that existed then, and visudo -s has
\* not been invoked.
C1_CommitGate ==
    CheckRejected =>
        /\ Content(fs, current_file) = pre.file
        /\ backups = pre.baks
        /\ ~Invoked("write")
        /\ ~Invoked("backup")

\* A rejected attempt has returned; the real file exists and the staged text
\* differed from it.
C1_Witness ==
    /\ pc = "Idle"
    /\ CheckRejected
    /\ pre.file # {}
    /\ pre.file # {merged}

\* C2 (ordering): in the calls of one attempt, visudo -s comes only after a
\* visudo -c that returned 0, and the backup copy comes only after that
\* successful check and never after visudo -s.
C2_Ordering ==
    \A i \in 1..Len(calls) :
        /\ calls[i].op = "write" =>
              \E j \in 1..(i - 1) : calls[j] = [op |-> "check", rc |-> 0]
        /\ calls[i].op = "backup" =>
              /\ \E j \in 1..(i - 1) : calls[j] = [op |-> "check", rc |-> 0]
              /\ \A k \in 1..(i - 1) : calls[k].op # "write"

\* An attempt made all three calls.
C2_Witness ==
    /\ Len(calls) = 3
    /\ calls[2].op = "backup"
    /\ calls[3].op = "write"

\* C3 (the write installs the staged text): when visudo -c and visudo -s
\* both returned 0, the file at current_file holds the merged text.
C3_WriteInstallsStaged ==
    pc = "Written" => Content(fs, current_file) = {merged}

\* C4 (reload after a successful write): when the commit returns after a
\* successful write, current_file is the file the attempt began with, and
\* original_text, the raw view and the rows of both tables are those that
\* populate_tabs derives from that file's content.
C4_ReloadsSameFile ==
    (pc = "Idle" /\ outcome = "Reloaded") =>
        /\ current_file = pre.cur
        /\ Content(fs, current_file) = {original_text}
        /\ raw_label = original_text
        /\ defaults_tab = PopulateDefaults(parse_sudoers(original_text).defaults)
        /\ alias_tab = PopulateAliases(parse_sudoers(original_text).aliases)

\* "\n".join as the claims read it: the lines with one line feed between
\* neighbours.
RECURSIVE JoinedByNewlines(_)
JoinedByNewlines(lines) ==
    IF lines = <<>> THEN <<>>
    ELSE IF Len(lines) = 1 THEN lines[1]
    ELSE JoinedByNewlines(SubSeq(lines, 1, Len(lines) - 1))
            \o <<NL>> \o lines[Len(lines)]

\* C5 (passthrough preservation): the staged text is the Defaults lines,
\* the alias lines and then exactly the lines parse_sudoers classified as
\* passthrough, verbatim and in their order.
C5_PassthroughPreserved ==
    pc = "Staged" =>
        merged = JoinedByNewlines(CollectDefaults(defaults_tab, 1)
                                    \o CollectAliases(alias_tab, 1)
                                    \o parse_sudoers(original_text).rules)
                    \o <<NL>>

IsCommentOrBlank(line) == startswith(strip(line), "#") \/ strip(line) = <<>>
IsDefaultsLine(line) == ~IsCommentOrBlank(line) /\ DEFAULT_RE_matches(strip(line))
IsAliasLine(line) ==
    /\ ~IsCommentOrBlank(line)
    /\ ~DEFAULT_RE_matches(strip(line))
    /\ ALIAS_RE_matches(strip(line))
IsPassthroughLine(line) == ~IsDefaultsLine(line) /\ ~IsAliasLine(line)

\* C6 (classification completeness): the three lists parse_sudoers returned
\* for the loaded text have as many entries together as the text has lines,
\* and each list is its class's lines in the order of the text: the
\* passthrough lines themselves, the captured body of each Defaults line,
\* the captured triple of each alias line.
C6_ClassificationComplete ==
    LET lines == splitlines(raw_label)
        D == SelectSeq(lines, IsDefaultsLine)
        A == SelectSeq(lines, IsAliasLine)
    IN  /\ Len(parsed.defaults) + Len(parsed.aliases) + Len(parsed.rules)
              = Len(lines)
        /\ parsed.rules = SelectSeq(lines, IsPassthroughLine)
        /\ Len(parsed.defaults) = Len(D)
        /\ \A i \in 1..Len(D) : parsed.defaults[i] = DEFAULT_RE_group1(strip(D[i]))
        /\ Len(parsed.aliases) = Len(A)
        /\ \A i \in 1..Len(A) : parsed.aliases[i] = ALIAS_RE_groups(strip(A[i]))

\* A loaded text with a line of each class and two lines of one class.
C6_Witness ==
    /\ Len(parsed.defaults) >= 1
    /\ Len(parsed.aliases) >= 1
    /\ Len(parsed.rules) >= 1
    /\ Len(splitlines(raw_label)) >= 3
    /\ raw_label # <<>>

\* C7 (alias serialization): for each alias row the staged text has the line
\* "<identity> = <definition>", the identity being the row's first field
\* with its kind.
C7_AliasKeepsKind ==
    pc = "Staged" =>
        \A r \in 1..Len(alias_tab) :
            \E i \in 1..Len(splitlines(merged)) :
                splitlines(merged)[i]
                    = strip(alias_tab[r][1].text) \o <<SP, "=", SP>>
                        \o strip(alias_tab[r][2].text)

ScenarioParsed ==
    [defaults |-> << <<"env_reset">>, <<"timestamp_timeout", "=", "1", "5">> >>,
     aliases |-> << [kind |-> "User", name |-> <<"ADMINS">>,
                     defn |-> <<"alice", ",", "bob">>] >>,
     rules |-> << <<"#", SP, "a", SP, "comment">> >>]

ScenarioMerged ==
    <<"Defaults", SP, "env_reset", NL,
      "Defaults", SP, "timestamp_timeout", "=", "1", "5", NL,
      "ADMINS", SP, "=", SP, "alice", ",", "bob", NL,
      "#", SP, "a", SP, "comment", NL>>

ScenarioLoaded == raw_label = ScenarioText /\ original_text = ScenarioText

\* C8 (end-to-end scenario): the scenario text parses to the three lists of
\* the claim, and Save on the unedited tables stages the claim's text.
C8_Scenario ==
    /\ raw_label = ScenarioText => parsed = ScenarioParsed
    /\ (pc = "Staged" /\ ScenarioLoaded /\ Unedited) => merged = ScenarioMerged

\* The scenario text was loaded and staged without an edit.
C8_Witness == pc = "Staged" /\ ScenarioLoaded /\ Unedited

\* The line the claim gives for a Defaults row.
DefaultsForm(row) ==
    IF strip(row[2].text) = <<>> THEN <<"Defaults", SP>> \o strip(row[1].text)
    ELSE <<"Defaults", SP>> \o strip(row[1].text) \o <<"=">> \o strip(row[2].text)

\* C9 (serialization order and Defaults form): the staged text is one line
\* per Defaults row in table order, in the key=value form when the value is
\* not empty and the bare form otherwise, then one line per alias row in
\* table order, then the untouched lines, joined by line feeds and followed
\* by one line feed; changed and unchanged rows alike.
C9_SerializationOrder ==
    pc = "Staged" =>
        LET n == Len(defaults_tab)
            m == Len(alias_tab)
            u == UntouchedLines(splitlines(original_text))
            lines == [i \in 1..(n + m + Len(u)) |->
                        IF i <= n THEN DefaultsForm(defaults_tab[i])
                        ELSE IF i <= n + m THEN AliasLine(alias_tab[i - n])
                        ELSE u[i - n - m]]
        IN  merged = JoinedByNewlines(lines) \o <<NL>>

\* A staged text with a changed Defaults row, a bare and a key=value row, an
\* alias row and an untouched line.
C9_Witness ==
    /\ pc = "Staged"
    /\ \E r \in 1..Len(defaults_tab) : defaults_tab[r][2].text # defaults_tab[r][2].orig
    /\ \E r \in 1..Len(defaults_tab) : strip(defaults_tab[r][2].text) = <<>>
    /\ \E r \in 1..Len(defaults_tab) : strip(defaults_tab[r][2].text) # <<>>
    /\ Len(alias_tab) >= 1
    /\ UntouchedLines(splitlines(original_text)) # <<>>

\* C10 (save gating): Save is enabled exactly when the edit toggle is
\* checked and every row of both tables is valid, and while a commit attempt
\* is under way every row is valid.
C10_SaveGating ==
    /\ save_btn <=> (edit_toggle /\ AllDefaultsOk(defaults_tab)
                        /\ AllAliasesOk(alias_tab))
    /\ Attempting => AllDefaultsOk(defaults_tab) /\ AllAliasesOk(alias_tab)

\* Editing is on and an edit has left a Defaults row invalid.
C10_Witness ==
    /\ pc = "Idle"
    /\ edit_toggle
    /\ nEdits > 0
    /\ ~AllDefaultsOk(defaults_tab)
    /\ \E r \in 1..Len(defaults_tab) :
          ~DefaultsRowOk(defaults_tab[r])
            /\ DefaultsRowOk([c \in 1..3 |-> NewCell(defaults_tab[r][c].orig)])

\* Every cell of the row has the error background.
Flagged(row) == \A c \in 1..Len(row) : row[c].bg = ErrorBg

\* C11 (no short-circuit in aggregate validation): after a validation pass
\* with edit mode on, every invalid row of the Defaults table and every
\* invalid row of the Alias table is flagged, whatever the other rows and
\* the other table are, and Save is enabled exactly when every row is valid.
C11_NoShortCircuit ==
    (pc = "Idle" /\ edit_toggle) =>
        /\ \A r \in 1..Len(defaults_tab) :
              ~DefaultsRowOk(defaults_tab[r]) => Flagged(defaults_tab[r])
        /\ \A r \in 1..Len(alias_tab) :
              ~AliasRowOk(alias_tab[r]) => Flagged(alias_tab[r])
        /\ save_btn <=> (AllDefaultsOk(defaults_tab) /\ AllAliasesOk(alias_tab))

\* The rule the claim gives for a Defaults row, on the trimmed key and value.
DefaultsRule(row) ==
    LET key == strip(row[1].text)
        val == strip(row[2].text)
        kind == MetaType(key)
    IN  /\ key # <<>>
        /\ kind = "bool" => val \in {<<>>, <<"true">>, <<"false">>}
        /\ kind = "enum" => val \in MetaChoices(key)
        /\ kind = "int" =>
              \E v \in MetaMin(key)..MetaMax(key) : int_ok(val) /\ int(val) = v

HasRow(key, val) ==
    \E r \in 1..Len(defaults_tab) :
        strip(defaults_tab[r][1].text) = key /\ strip(defaults_tab[r][2].text) = val

Validated == pc = "Idle" /\ edit_toggle

\* C12 (Defaults row validation): validate_row's verdict on every row is the
\* claim's per-kind rule; after a validation pass every row the rule rejects
\* is flagged and Save is enabled only if the rule accepts every row; no
\* session on a file without aliases ends in an exception; timestamp_timeout
\* with "abc" or "-5" and lecture with "sometimes" disable Save, and a lone
\* timestamp_timeout=5 or lecture=once row enables it.
C12_DefaultsRowRule ==
    /\ \A r \in 1..Len(defaults_tab) :
          DefaultsRowOk(defaults_tab[r]) <=> DefaultsRule(defaults_tab[r])
    /\ Validated =>
          /\ \A r \in 1..Len(defaults_tab) :
                ~DefaultsRule(defaults_tab[r]) => Flagged(defaults_tab[r])
          /\ (save_btn /\ Len(alias_tab) = 0)
                <=> (Len(alias_tab) = 0
                        /\ \A r \in 1..Len(defaults_tab) : DefaultsRule(defaults_tab[r]))
          /\ (HasRow(<<"timestamp_timeout">>, <<"abc">>)
                \/ HasRow(<<"timestamp_timeout">>, <<"-", "5">>)
                \/ HasRow(<<"lecture">>, <<"sometimes">>)) => ~save_btn
          /\ (Len(defaults_tab) = 1 /\ Len(alias_tab) = 0
                /\ (HasRow(<<"timestamp_timeout">>, <<"5">>)
                       \/ HasRow(<<"lecture">>, <<"once">>))) => save_btn
    /\ parse_sudoers(fs[SUDOERS_PATH]).aliases = <<>> => pc # "Crashed"

\* A validation pass has rejected a timestamp_timeout row whose value is an
\* integer below the minimum.
C12_Witness ==
    /\ Validated
    /\ HasRow(<<"timestamp_timeout">>, <<"-", "5">>)
    /\ \A r \in 1..Len(defaults_tab) : Flagged(defaults_tab[r])
    /\ ~save_btn

\* The identity form `<Kind>_Alias <Name>`: a kind keyword, blanks, a name.
IdentityForm(first) ==
    /\ first # <<>>
    /\ Head(first) \in AliasKw
    /\ LeadingSpaces(Tail(first)) >= 1
    /\ lstrip(Tail(first)) # <<>>

\* The rule the claim gives for an alias row, on the trimmed fields.
AliasRule(row) ==
    LET first == strip(row[1].text)
        second == strip(row[2].text)
    IN  /\ first # <<>>
        /\ second # <<>>
        /\ IdentityForm(first)
        /\ ~Contains(first, "=")

\* C13 (alias row validation): validate_row's verdict on every alias row is
\* the claim's rule: both fields non-empty, the identity a kind, a separator
\* and a name, and no "=" in the identity.
C13_AliasRowRule ==
    \A r \in 1..Len(alias_tab) :
        AliasRowOk(alias_tab[r]) <=> AliasRule(alias_tab[r])

Count(op) == Cardinality({i \in 1..Len(calls) : calls[i].op = op})
BackupFailed == \E i \in 1..Len(calls) : calls[i].op = "backup" /\ calls[i].rc # 0
WriteSucceeded == \E i \in 1..Len(calls) : calls[i].op = "write" /\ calls[i].rc = 0
Warned == \E i \in 1..Len(shown) : shown[i].kind = "warning"

\* C14 (backup failure is non-fatal): when the copy to the backup path has
\* failed in an attempt, the warning has been shown, the attempt does not
\* return before visudo -s has been called, and visudo -s is called once.
C14_BackupFailureNonFatal ==
    BackupFailed =>
        /\ Warned
        /\ pc \in {"BackedUp", "Written", "Idle"}
        /\ pc = "BackedUp" => Count("write") = 0
        /\ pc \in {"Written", "Idle"} => Count("write") = 1

\* The copy failed and visudo -s was then called and succeeded.
C14_Witness == BackupFailed /\ WriteSucceeded /\ pc = "Written"

\* C15 (backup before every successful write): when visudo -s has returned 0
\* in an attempt, the backup file named in that attempt exists and holds the
\* content the real file had when the attempt began.
C15_BackupBeforeWrite ==
    WriteSucceeded =>
        /\ backup.of = pre.cur
        /\ backup \in DOMAIN backups
        /\ {backups[backup]} = pre.file

\* C16 (write failure leaves the state untouched): when visudo -s has
\* returned non-zero, the file at current_file holds what it held when the
\* attempt began, the "Save failed" error box is the last box shown, and
\* current_file, original_text, both tables, the edit toggle and the Save
\* button are what they were when Save was clicked, so Save can be clicked
\* again.
C16_WriteFailureLeavesState ==
    outcome = "WriteFailed" =>
        /\ pc = "Idle"
        /\ Content(fs, current_file) = pre.file
        /\ shown # <<>> /\ shown[Len(shown)] = SaveFailedBox
        /\ current_file = pre.cur
        /\ original_text = pre.text
        /\ defaults_tab = pre.d
        /\ alias_tab = pre.a
        /\ edit_toggle /\ edit_toggle = pre.edit
        /\ save_btn /\ save_btn = pre.save

\* visudo -s refused a staged text that carries an edit.
C16_Witness ==
    /\ outcome = "WriteFailed"
    /\ ~Unedited
    /\ merged # original_text

InSave == pc \in {"Staged", "Checked", "BackedUp", "Written", "WriteFailed"}

IsInfix(d, text) ==
    \E i \in 0..(Len(text) - Len(d)) : SubSeq(text, i + 1, i + Len(d)) = d

\* C18 (diagnostics are surfaced verbatim): when visudo -c has rejected the
\* staged file or visudo -s has failed, the text of the error box shown
\* contains the diagnostic that visudo wrote.
C18_DiagnosticsVerbatim ==
    outcome \in {"CheckFailed", "WriteFailed"} =>
        /\ shown # <<>>
        /\ stderr # <<>>
        /\ IsInfix(stderr[Len(stderr)], shown[Len(shown)].text)

\* C19 (temp-file cleanup): when an attempt that wrote the staging file has
\* returned to Idle, after a rejected check, a failed write or a successful
\* write, the staging file does not exist.
C19_TempFileCleanup ==
    (pc = "Idle" /\ outcome \in {"CheckFailed", "WriteFailed", "Reloaded"}) =>
        tmp_path \notin DOMAIN fs

\* An attempt wrote the staging file, visudo -s succeeded, the reload was
\* answered with a file and the attempt has returned.
C19_Witness ==
    /\ pc = "Idle"
    /\ outcome = "Reloaded"
    /\ merged # <<>>
    /\ original_text # merged
    /\ tmp_path \notin DOMAIN fs

IsErrorBox(box) == box.kind = "critical" /\ box.title = "Error"

LoadFailed(path) ==
    \/ pc = "Idle" /\ pc' = "Idle" /\ nAttempts' = nAttempts
          /\ shown' = <<LoadErrorBox(path)>>
    \/ pc = "Written" /\ shown' = Append(shown, LoadErrorBox(path))

\* C20 (load failure): a step in which open_sudoers could not read the
\* chosen file shows the error box once and leaves current_file,
\* original_text, both tables, the raw view, the edit toggle and the Save
\* button as they were.
C20_LoadFailureLeavesState ==
    [][\A path \in DialogChoices :
          LoadFailed(path) =>
              /\ path \notin DOMAIN fs
              /\ Len(SelectSeq(shown', IsErrorBox)) = 1
              /\ UNCHANGED <<current_file, original_text, defaults_tab,
                             alias_tab, raw_label, edit_toggle, save_btn>>]_vars

\* A file is loaded and being edited, and an Open on a file that cannot be
\* read has just shown its error box.
C20_Witness ==
    /\ pc = "Idle"
    /\ shown = <<LoadErrorBox(MissingPath)>>
    /\ current_file = SUDOERS_PATH
    /\ edit_toggle
    /\ ~Unedited

NoColonNoEmpty(items) ==
    \A i \in 1..Len(items) :
        /\ items[i] # <<>>
        /\ \A k \in 1..Len(items[i]) : items[i][k] # ":"

\* C21 (path-list round trip): when the dialog is accepted with a list L
\* that has no empty item and no colon in an item, a dialog populated from
\* the string `result` returns holds exactly L; the result of the empty
\* list is the empty string, and the empty string populates the empty list.
C21_PathListRoundTrip ==
    /\ (dlg.open /\ dlg.done /\ NoColonNoEmpty(dlg.list)) =>
           NewDialog(dlg.result).list = dlg.list
    /\ (dlg.open /\ dlg.done /\ dlg.list = <<>>) => dlg.result = <<>>
    /\ (dlg.open /\ dlg.n = 0 /\ dlg.initial = <<>>) => dlg.list = <<>>

\* One layer of surrounding double quotes, when both are there.
OneLayerOff(s) ==
    IF Len(s) >= 2 /\ Head(s) = Q /\ s[Len(s)] = Q
    THEN SubSeq(s, 2, Len(s) - 1) ELSE s

\* C22 (decode): the list a dialog starts with is the initial value with
\* exactly one layer of surrounding double quotes removed when present and
\* nothing removed otherwise, split on colons, the empty segments
\* discarded, the others in order.
C22_DecodeOneLayer ==
    (dlg.open /\ dlg.n = 0) =>
        dlg.list = SelectSeq(SplitColon(OneLayerOff(dlg.initial), <<>>),
                             LAMBDA p : p # <<>>)

Occurrences(items, p) == Cardinality({i \in 1..Len(items) : items[i] = p})

\* C23 (insert): after Add with a directory chosen, the list is the list
\* before with the directory appended at the end if no item was equal to it
\* (compared exactly, case included) and the list before otherwise; a
\* directory the list held at most once is held exactly once afterwards.
C23_InsertOnlyIfAbsent ==
    (dlg.open /\ dlg.last.op = "add" /\ dlg.last.arg # <<>>) =>
        /\ dlg.list = IF Occurrences(dlg.prev, dlg.last.arg) = 0
                      THEN Append(dlg.prev, dlg.last.arg) ELSE dlg.prev
        /\ Occurrences(dlg.prev, dlg.last.arg) <= 1 =>
               Occurrences(dlg.list, dlg.last.arg) = 1

\* /usr/bin was added to a list that did not hold it, /BIN was added to a
\* list holding /bin, and then /usr/bin was added again.
C23_Witness ==
    /\ dlg.open
    /\ dlg.n = 3
    /\ dlg.last = [op |-> "add", arg |-> <<"/usr/bin">>]
    /\ dlg.prev = <<<<"/bin">>, <<"/usr/bin">>, <<"/BIN">>>>
    /\ dlg.list = dlg.prev
    /\ dlg.initial = <<"/bin">>

\* C24 (no duplicates): in every state of the dialog, from the list its
\* initial value populates on, no directory is in the list more than once,
\* and none is more than once among the segments of the accepted result.
C24_NoDuplicates ==
    dlg.open =>
        /\ \A i, j \in 1..Len(dlg.list) : dlg.list[i] = dlg.list[j] => i = j
        /\ dlg.done =>
               LET segs == SplitColon(OneLayerOff(dlg.result), <<>>)
               IN  \A i, j \in 1..Len(segs) : segs[i] = segs[j] => i = j

\* Some cell of the row has the error background.
ShowsError(row) == \E c \in 1..Len(row) : row[c].bg = ErrorBg

\* C25 (error highlighting tracks validity): after a validation pass with
\* edit mode on, a row of the Defaults table has the error background on a
\* cell exactly when the row is invalid now; a corrected row has it on no
\* cell.
C25_ErrorTracksValidity ==
    Validated =>
        \A r \in 1..Len(defaults_tab) :
            ShowsError(defaults_tab[r]) <=> ~DefaultsRowOk(defaults_tab[r])

\* C26 (two instances, one staging path): when visudo -s has returned 0 in
\* an attempt of this instance, the staging file it ran on held the text
\* this instance's visudo -c approved, which is this instance's merged text.
C26_WriteInstallsCheckedContent ==
    WriteSucceeded =>
        /\ seen.written = seen.checked
        /\ seen.checked = {merged}

\* C27 (kind change keeps the name): an alias row whose identity was changed
\* through the kind dropdown reads `<NewKind>_Alias <Name>` with the name
\* the row was loaded with, so save serializes that name; when this was the
\* only edit, the definition is the one loaded.
C27_KindChangeKeepsName ==
    \A r \in 1..Len(alias_tab) :
        alias_tab[r][1].text # alias_tab[r][1].orig =>
            /\ \E kw \in AliasKw :
                  alias_tab[r][1].text = <<kw, SP>> \o LastPiece(alias_tab[r][1].orig)
            /\ LastPiece(alias_tab[r][1].text) = LastPiece(alias_tab[r][1].orig)
            /\ nEdits = 1 => alias_tab[r][2].text = alias_tab[r][2].orig

\* C28 (the alias table's event chain comes to rest): no click on the edit
\* toggle and no cell edit ends with the slots still calling one another at
\* the recursion limit; the only handler that can raise is save_sudoers
\* splitting an empty identity.
C28_AliasChainQuiesces ==
    pc = "Crashed" => outcome = "Raised"

====
